---- MODULE Spec2Model ----
(***************************************************************************)
(* FastTP (src/fasttp.py): change detection by content hashes, the         *)
(* breadth-first feature extraction bfs_features, and the ranking policy   *)
(* of rank.  A path is a string; strings are modelled as finite sequences  *)
(* of character codes so that Python's lexicographic ordering is explicit. *)
(***************************************************************************)
EXTENDS Integers, Sequences, FiniteSets, TLC

\* ------------------------------------------------------------------ bounds
NumNodes == 3      \* number of project-relative paths in the universe
MaxOut == 2        \* longest dependency list of one file
MaxEdges == 3      \* size of an enumerated dependency graph
MaxScoreNum == 3   \* the model's scores are k / ScoreDen for k in 0..MaxScoreNum
ScoreDen == 2
NumFiles == 2      \* number of paths that may exist on disk in a sequence of runs
MaxContent == 1    \* file contents are 0..MaxContent

\* ------------------------------------------------------- program constants
Sentinel == 999999

\* ------------------------------------------------------------------- paths
\* Project-relative paths over the characters 1 ("a"), 2 ("b"), 3 ("c"); the
\* first character is the top-level folder, the rest the file name:
\* "a/a", "b/a", "a/ab", "b/b", "a/b", "b/aa", "c/a".
Names == << <<1, 1>>, <<2, 1>>, <<1, 1, 2>>, <<2, 2>>, <<1, 2>>, <<2, 1, 1>>, <<3, 1>> >>

Nodes == {Names[i] : i \in 1..NumNodes}

\* The four files of the diamond scenario (test A, sources S1, S2, S3).
A == Names[1]
S1 == Names[2]
S2 == Names[3]
S3 == Names[4]

AllNodes == Nodes \cup {A, S1, S2, S3}

\* --------------------------------------------------------------- rationals
\* Python's true division: the quotient is kept as an exact fraction.
Frac(n, d) == [num |-> n, den |-> d]

FracEq(x, y) == x.num * y.den = y.num * x.den

FracLess(x, y) == x.num * y.den < y.num * x.den

\* ------------------------------------------------------ dependency graphs
\* A dependencies dict: keys are paths, values are lists of paths
\* (duplicates and self-references allowed).
RECURSIVE SeqsUpTo(_, _)
SeqsUpTo(S, n) ==
    IF n = 0 THEN {<<>>}
    ELSE LET shorter == SeqsUpTo(S, n - 1)
         IN  shorter \cup {Append(s, x) : s \in {t \in shorter : Len(t) = n - 1}, x \in S}

RECURSIVE SumOver(_, _)
SumOver(S, f) ==
    IF S = {} THEN 0
    ELSE LET x == CHOOSE y \in S : TRUE
         IN  f[x] + SumOver(S \ {x}, f)

\* Size of a dict: its edges, a key with an empty list counting as one.
EntryCount(g) ==
    SumOver(DOMAIN g, [n \in DOMAIN g |-> IF g[n] = <<>> THEN 1 ELSE Len(g[n])])

DepLists == SeqsUpTo(Nodes, MaxOut)

NoDependencies == [n \in {} |-> <<>>]

\* Every dict with keys in S and size at most e.
RECURSIVE GraphsOver(_, _)
GraphsOver(S, e) ==
    IF S = {} THEN {NoDependencies}
    ELSE LET x == CHOOSE y \in S : TRUE
             others == GraphsOver(S \ {x}, e)
         IN  others \cup
             UNION {{(x :> l) @@ g : l \in {m \in DepLists :
                                              EntryCount((x :> m) @@ g) <= e}}
                    : g \in others}

Graphs == GraphsOver(Nodes, MaxEdges)

\* Scenario graphs of the specification's testable properties.
Diamond == (A :> <<S1, S2>>) @@ (S1 :> <<S3>>) @@ (S2 :> <<S3>>)

Cycle == (A :> <<S1>>) @@ (S1 :> <<A>>)

VARIABLES
    \* inputs of bfs_features and rank; in a run, the values tp computed
    test, dependencies, changed,
    \* locals of bfs_features
    neighbors, visited, number_changed_dep, len_shortest_path,
    avg_len_shortest_paths,
    \* control of bfs_features: "loop" while the while-loop runs, "done" after
    \* the return
    pc,
    \* the triple bfs_features returned
    result,
    \* per node, how often the body guarded by "not in visited" ran for it
    processed,
    \* how many iterations of the while loop have run
    iterations,
    \* rank: the list of tests, the feature rows, what model.predict
    \* returned, and the sorted list returned
    tests, features, predictions, ranked,
    \* control of rank and of a run
    rpc,
    \* the files of the project: path -> content, for the paths that exist
    disk,
    \* .fasttp/hashes.json: absent, corrupt, or a document, which is a list of
    \* (path, digest) pairs
    hashes_json,
    \* the -t and -s arguments, the same in every run of a project
    test_folder, source_folder,
    \* locals of tp
    old_hashes, new_hashes,
    \* the hash mapping of the last run that saved it, if there is one and
    \* the file was not left unreadable since
    persisted,
    \* how the last run ended: "none", "completed" or "failed"
    last_run,
    \* a test or source file was added, removed or modified since the last
    \* run hashed the files
    dirty

bfsLocals == <<neighbors, visited, number_changed_dep, len_shortest_path,
               avg_len_shortest_paths, pc, result, processed, iterations>>

rankLocals == <<tests, features, predictions, ranked, rpc>>

runVars == <<disk, hashes_json, test_folder, source_folder, old_hashes,
             new_hashes, persisted, last_run, dirty>>

vars == <<test, dependencies, changed, bfsLocals, rankLocals, runVars>>

NoPath == <<>>

\* bfs_features is not running step by step.
BfsIdle ==
    /\ test = NoPath
    /\ neighbors = <<>>
    /\ visited = {}
    /\ number_changed_dep = 0
    /\ len_shortest_path = 0
    /\ avg_len_shortest_paths = Frac(0, 1)
    /\ pc = "idle"
    /\ result = <<>>
    /\ processed = <<>>
    /\ iterations = 0

\* rank is not running.
RankIdle ==
    /\ tests = <<>>
    /\ features = <<>>
    /\ predictions = <<>>
    /\ ranked = <<>>
    /\ rpc = "idle"

NoHashes == [f \in {} |-> <<>>]

\* States of the file hashes.json.
AbsentFile == [kind |-> "absent", doc |-> <<>>]

CorruptFile == [kind |-> "corrupt", doc |-> <<>>]

FileWith(d) == [kind |-> "document", doc |-> d]

\* The mapping a completed run left behind.
NoMapping == [exists |-> FALSE, map |-> NoHashes]

Mapping(h) == [exists |-> TRUE, map |-> h]

\* No project is being run.
RunIdle ==
    /\ disk = NoHashes
    /\ hashes_json = AbsentFile
    /\ test_folder = <<>>
    /\ source_folder = <<>>
    /\ old_hashes = NoHashes
    /\ new_hashes = NoHashes
    /\ persisted = NoMapping
    /\ last_run = "none"
    /\ dirty = FALSE

\* ------------------------------------------------------------ bfs_features
\* The locals of one activation, as a record.
Frame(q, v, n, l, a) ==
    [neighbors |-> q, visited |-> v, number_changed_dep |-> n,
     len_shortest_path |-> l, avg_len_shortest_paths |-> a]

\* lines 65-69
BfsStart(t) == Frame(<< <<t, 0>> >>, {}, 0, Sentinel, Frac(0, 1))

\* Mutant of PopLeft: neighbors.pop(), which takes the newest entry.
PopRight(q) == [item |-> q[Len(q)], rest |-> SubSeq(q, 1, Len(q) - 1)]

\* line 72: neighbors.popleft()
PopLeft(q) == [item |-> Head(q), rest |-> Tail(q)]

\* line 73: neighbor not in visited
NotVisited(neighbor, v) == neighbor \notin v

\* Mutant of AddVisited: the node is never recorded.
AddVisitedDropped(v, neighbor) == v

\* line 74: visited.add(neighbor)
AddVisited(v, neighbor) == v \cup {neighbor}

\* Mutant of Account: the count is incremented inside "if dist < len_shortest_path".
AccountOnlyCloser(f, neighbor, dist, chg) ==
    IF neighbor \in chg
    THEN [f EXCEPT !.number_changed_dep = IF dist < f.len_shortest_path THEN @ + 1 ELSE @,
                   !.len_shortest_path = IF dist < @ THEN dist ELSE @,
                   !.avg_len_shortest_paths = Frac(@.num + dist * @.den, @.den)]
    ELSE f

\* lines 75-79: the accounting of a changed node
Account(f, neighbor, dist, chg) ==
    IF neighbor \in chg
    THEN [f EXCEPT !.number_changed_dep = @ + 1,
                   !.len_shortest_path = IF dist < @ THEN dist ELSE @,
                   !.avg_len_shortest_paths = Frac(@.num + dist * @.den, @.den)]
    ELSE f

\* lines 80-82: the dependencies of the node are appended at distance dist + 1
Expand(q, neighbor, dist, deps) ==
    IF neighbor \in DOMAIN deps
    THEN q \o [i \in 1..Len(deps[neighbor]) |-> <<deps[neighbor][i], dist + 1>>]
    ELSE q

\* lines 72-82: one iteration of the while loop
BfsBody(f, deps, chg) ==
    LET p == PopLeft(f.neighbors)
        neighbor == p.item[1]
        dist == p.item[2]
    IN  IF NotVisited(neighbor, f.visited)
        THEN LET g == Account(f, neighbor, dist, chg)
             IN  [g EXCEPT !.visited = AddVisited(f.visited, neighbor),
                           !.neighbors = Expand(p.rest, neighbor, dist, deps)]
        ELSE [f EXCEPT !.neighbors = p.rest]

\* Mutant of BfsReturn: floor division instead of true division.
BfsReturnFloorDiv(f) ==
    LET avg == IF f.number_changed_dep # 0
               THEN Frac(f.avg_len_shortest_paths.num
                            \div (f.avg_len_shortest_paths.den * f.number_changed_dep), 1)
               ELSE Frac(f.len_shortest_path, 1)
    IN  <<f.number_changed_dep, f.len_shortest_path, avg>>

\* lines 84-89: the average and the returned triple
BfsReturn(f) ==
    LET avg == IF f.number_changed_dep # 0
               THEN Frac(f.avg_len_shortest_paths.num,
                         f.avg_len_shortest_paths.den * f.number_changed_dep)
               ELSE Frac(f.len_shortest_path, 1)
    IN  <<f.number_changed_dep, f.len_shortest_path, avg>>

\* lines 71-82: the while loop run to its end
RECURSIVE BfsLoop(_, _, _)
BfsLoop(f, deps, chg) ==
    IF f.neighbors = <<>> THEN f ELSE BfsLoop(BfsBody(f, deps, chg), deps, chg)

\* lines 64-89
bfs_features(t, deps, chg) == BfsReturn(BfsLoop(BfsStart(t), deps, chg))

\* ------------------------------------------- bfs_features, step by step
CurrentFrame ==
    Frame(neighbors, visited, number_changed_dep, len_shortest_path,
          avg_len_shortest_paths)

SetFrame(f) ==
    /\ neighbors' = f.neighbors
    /\ visited' = f.visited
    /\ number_changed_dep' = f.number_changed_dep
    /\ len_shortest_path' = f.len_shortest_path
    /\ avg_len_shortest_paths' = f.avg_len_shortest_paths

BfsInputs ==
    \/ /\ dependencies \in Graphs
       /\ changed \in SUBSET Nodes
       /\ test \in Nodes
    \/ /\ dependencies \in {Diamond, Cycle}
       /\ changed \in SUBSET {A, S1, S2, S3}
       /\ test \in {A, S1, S2, S3}

InitBfs ==
    /\ BfsInputs
    /\ neighbors = BfsStart(test).neighbors
    /\ visited = {}
    /\ number_changed_dep = 0
    /\ len_shortest_path = Sentinel
    /\ avg_len_shortest_paths = Frac(0, 1)
    /\ pc = "loop"
    /\ result = <<>>
    /\ processed = [n \in AllNodes |-> 0]
    /\ iterations = 0
    /\ RankIdle
    /\ RunIdle

\* line 71: the loop condition holds / fails while the function runs
LoopContinues == pc = "loop" /\ neighbors # <<>>

LoopExits == pc = "loop" /\ neighbors = <<>>

\* One iteration of the while loop (line 71 true).
BfsIter ==
    /\ LoopContinues
    /\ SetFrame(BfsBody(CurrentFrame, dependencies, changed))
    /\ processed' = IF NotVisited(Head(neighbors)[1], visited)
                    THEN [processed EXCEPT ![Head(neighbors)[1]] = @ + 1]
                    ELSE processed
    /\ iterations' = iterations + 1
    /\ UNCHANGED <<test, dependencies, changed, pc, result, rankLocals, runVars>>

\* The loop exits (line 71 false) and the function returns.
BfsExit ==
    /\ LoopExits
    /\ result' = BfsReturn(CurrentFrame)
    /\ pc' = "done"
    /\ UNCHANGED <<test, dependencies, changed, neighbors, visited,
                   number_changed_dep, len_shortest_path,
                   avg_len_shortest_paths, processed, iterations, rankLocals, runVars>>

NextBfs == BfsIter \/ BfsExit

SpecBfs == InitBfs /\ [][NextBfs]_vars

\* ------------------------------------------------ reference graph notions
\* Defined from the edge relation alone, without a queue or a visited set.
Succ(n, deps) ==
    IF n \in DOMAIN deps THEN {deps[n][i] : i \in 1..Len(deps[n])} ELSE {}

\* Nodes reachable from t by a walk of at most k edges.
RECURSIVE ReachWithin(_, _, _)
ReachWithin(t, deps, k) ==
    IF k = 0 THEN {t}
    ELSE LET R == ReachWithin(t, deps, k - 1)
         IN  R \cup UNION {Succ(n, deps) : n \in R}

Reachable(t, deps) == ReachWithin(t, deps, Cardinality(AllNodes))

\* Length of a shortest walk from t to a reachable node n.
Hops(t, n, deps) ==
    CHOOSE k \in 0..Cardinality(AllNodes) :
        /\ n \in ReachWithin(t, deps, k)
        /\ \A j \in 0..(k - 1) : n \notin ReachWithin(t, deps, j)

ReachableChanged(t, deps, chg) == Reachable(t, deps) \cap chg

MinHops(t, deps, chg) ==
    LET RC == ReachableChanged(t, deps, chg)
    IN  IF RC = {} THEN Sentinel
        ELSE CHOOSE k \in {Hops(t, n, deps) : n \in RC} :
                \A n \in RC : k <= Hops(t, n, deps)

SumHops(t, deps, chg) ==
    LET RC == ReachableChanged(t, deps, chg)
    IN  SumOver(RC, [n \in RC |-> Hops(t, n, deps)])

\* Node n is the target of two edges met during the traversal from t.
SeveralEdgesTo(n, t, deps) ==
    \/ \E m1, m2 \in Reachable(t, deps) :
          m1 # m2 /\ n \in Succ(m1, deps) /\ n \in Succ(m2, deps)
    \/ \E m \in Reachable(t, deps) \cap DOMAIN deps :
          \E i, j \in 1..Len(deps[m]) : i # j /\ deps[m][i] = n /\ deps[m][j] = n

SeveralPaths(t, deps) == \E n \in Reachable(t, deps) : SeveralEdgesTo(n, t, deps)

\* ------------------------------------------------------------------ claims
\* C1: when bfs_features returns, changed_reachable_count is the number of
\* distinct nodes reachable from the test (the test included) that are in the
\* change set, however many paths or duplicate edges lead to a node.
C1_CountIsReachableChanged ==
    pc = "done" =>
        result[1] = Cardinality(ReachableChanged(test, dependencies, changed))

\* C1 witness: a changed node with two incoming traversed edges was counted.
C1_Witness ==
    /\ pc = "done"
    /\ result[1] >= 1
    /\ \E n \in ReachableChanged(test, dependencies, changed) :
          SeveralEdgesTo(n, test, dependencies)

\* C2: when bfs_features returns, min_distance is the length of a shortest
\* path from the test to a changed node, or 999999 if none is reachable.
C2_MinDistanceIsShortest ==
    pc = "done" => result[2] = MinHops(test, dependencies, changed)

\* C2 witness: the diamond with S3 changed returns min_distance 2.
C2_Witness ==
    /\ pc = "done"
    /\ dependencies = Diamond /\ test = A /\ changed = {S3}
    /\ result[2] = 2

\* C3: when bfs_features returns, avg_distance is the sum of the distances of
\* the reachable changed nodes divided by their number, each node once; with
\* no reachable changed node the count is 0 and avg_distance and
\* min_distance are both 999999.
C3_AvgDistanceIsMean ==
    pc = "done" =>
        LET RC == ReachableChanged(test, dependencies, changed)
        IN  IF RC = {}
            THEN /\ result[1] = 0
                 /\ result[2] = Sentinel
                 /\ FracEq(result[3], Frac(Sentinel, 1))
            ELSE FracEq(result[3],
                        Frac(SumHops(test, dependencies, changed), Cardinality(RC)))

\* C3 witness: several changed nodes, reached over several paths, with a
\* mean that is not a whole number.
C3_Witness ==
    /\ pc = "done"
    /\ result[1] >= 2
    /\ SeveralPaths(test, dependencies)
    /\ result[3].num % result[3].den # 0

\* C4: the traversal terminates on every graph (cycles, self-references and
\* duplicate edges included): before the return either another iteration or
\* the exit of the loop is possible, and the loop runs at most once per queue
\* entry, of which there are at most one plus the number of edges; the
\* guarded body runs at most once per node; and on the cycle A -> B -> A
\* with nothing changed the count for A is 0.
C4_TerminatesOncePerNode ==
    /\ pc = "done" \/ LoopContinues \/ LoopExits
    /\ iterations <= 1 + SumOver(DOMAIN dependencies,
                                 [n \in DOMAIN dependencies |-> Len(dependencies[n])])
    /\ \A n \in AllNodes : processed[n] <= 1
    /\ (pc = "done" /\ dependencies = Cycle /\ test = A /\ changed = {})
          => result[1] = 0

\* C4 witness: the traversal of the unchanged cycle has returned.
C4_Witness ==
    /\ pc = "done"
    /\ dependencies = Cycle /\ test = A /\ changed = {}
    /\ processed[A] = 1 /\ processed[S1] = 1
    /\ iterations = 3
    /\ result[1] = 0

\* --------------------------------------------------------------------- rank
\* Python's str "<": lexicographic by character, a proper prefix is smaller.
StrLess(a, b) ==
    \E i \in 1..(Len(b)) :
        /\ \A j \in 1..(i - 1) : j <= Len(a) /\ a[j] = b[j]
        /\ \/ i = Len(a) + 1
           \/ i <= Len(a) /\ a[i] < b[i]

\* Mutant of PairLess: the sort key is the score alone.
PairLessScoreOnly(p, q) == FracLess(p[1], q[1])

\* Python's tuple "<" on (score, path) pairs: the first component that
\* differs decides (line 95 sorts the pairs themselves).
PairLess(p, q) ==
    IF ~FracEq(p[1], q[1]) THEN FracLess(p[1], q[1]) ELSE StrLess(p[2], q[2])

\* Insert x into a descending list after every element that is not smaller
\* (sorted is stable, also with reverse=True).
RECURSIVE InsertDesc(_, _)
InsertDesc(x, s) ==
    IF s = <<>> THEN <<x>>
    ELSE IF PairLess(Head(s), x) THEN <<x>> \o s
         ELSE <<Head(s)>> \o InsertDesc(x, Tail(s))

\* line 95: sorted(ranked, reverse=True)
RECURSIVE SortedReverse(_)
SortedReverse(s) ==
    IF s = <<>> THEN <<>>
    ELSE InsertDesc(s[Len(s)], SortedReverse(SubSeq(s, 1, Len(s) - 1)))

\* Mutant of FinalScore: the model's score is used for every test.
FinalScoreNoOverride(t, v, chg) == v

\* line 93: 1.0 if test in changed else v[0].item()
FinalScore(t, v, chg) == IF t \in chg THEN Frac(1, 1) ELSE v

Min(a, b) == IF a < b THEN a ELSE b

\* Mutant of Zip: pairs collected in a dict keyed by the first component, so
\* that a later pair replaces an earlier pair with the same key.
RECURSIVE ZipByKey(_, _)
ZipByKey(xs, ys) ==
    LET n == Min(Len(xs), Len(ys))
    IN  IF n = 0 THEN <<>>
        ELSE LET front == ZipByKey(SubSeq(xs, 1, n - 1), SubSeq(ys, 1, n - 1))
                 kept == SelectSeq(front, LAMBDA p : ~FracEq(p[1], xs[n]))
             IN  Append(kept, <<xs[n], ys[n]>>)

\* zip: pairs up to the end of the shorter sequence (lines 93, 94)
Zip(xs, ys) == [i \in 1..Min(Len(xs), Len(ys)) |-> <<xs[i], ys[i]>>]

\* line 92: one feature row per test
FeatureRows(ts, deps, chg) == [i \in 1..Len(ts) |-> bfs_features(ts[i], deps, chg)]

\* lines 93-95, given what model.predict returned
RankWith(preds, ts, chg) ==
    LET scored == Zip(preds, ts)
        scores == [i \in 1..Len(scored) |-> FinalScore(scored[i][2], scored[i][1], chg)]
    IN  SortedReverse(Zip(scores, ts))

\* The scores a model may return.
Scores == {Frac(k, ScoreDen) : k \in 0..MaxScoreNum}

SameRow(f, g) == f[1] = g[1] /\ f[2] = g[2] /\ FracEq(f[3], g[3])

\* model.predict: one score per row, in row order; equal rows get equal
\* scores, otherwise the scores are arbitrary.
Predictions(rows) ==
    {p \in [1..Len(rows) -> Scores] :
        \A i, j \in 1..Len(rows) : SameRow(rows[i], rows[j]) => p[i] = p[j]}

\* Lists of distinct paths of S, of length 1 to n (test_files, line 103).
DistinctLists(S, n) ==
    {l \in SeqsUpTo(S, n) : l # <<>> /\ \A i, j \in 1..Len(l) : i # j => l[i] # l[j]}

RankInputs ==
    /\ tests \in DistinctLists(Nodes, NumNodes)
    /\ dependencies \in {NoDependencies, Diamond, Cycle}
    /\ changed \in SUBSET AllNodes

InitRank ==
    /\ RankInputs
    /\ features = <<>>
    /\ predictions = <<>>
    /\ ranked = <<>>
    /\ rpc = "features"
    /\ BfsIdle
    /\ RunIdle

\* line 92
RankFeatures ==
    /\ rpc = "features"
    /\ features' = FeatureRows(tests, dependencies, changed)
    /\ rpc' = "predict"
    /\ UNCHANGED <<test, dependencies, changed, bfsLocals, runVars, tests, predictions, ranked>>

\* line 93: the call of model.predict
RankPredict ==
    /\ rpc = "predict"
    /\ predictions' \in Predictions(features)
    /\ rpc' = "sort"
    /\ UNCHANGED <<test, dependencies, changed, bfsLocals, runVars, tests, features, ranked>>

\* lines 93-95: the scores, the pairs and the sort
RankSort ==
    /\ rpc = "sort"
    /\ ranked' = RankWith(predictions, tests, changed)
    /\ rpc' = "done"
    /\ UNCHANGED <<test, dependencies, changed, bfsLocals, runVars, tests, features, predictions>>

NextRank == RankFeatures \/ RankPredict \/ RankSort

SpecRank == InitRank /\ [][NextRank]_vars

\* Positions of the ranked list holding test t.
PositionsOf(t) == {i \in 1..Len(ranked) : ranked[i][2] = t}

TestSet == {tests[i] : i \in 1..Len(tests)}

\* C5: for every test whose own path is in the change set, the final score
\* is 1.0 whatever the model returned, and its feature row has
\* changed_reachable_count >= 1 and min_distance = 0.
C5_ChangedTestOverride ==
    rpc = "done" =>
        \A i \in 1..Len(tests) :
            tests[i] \in changed =>
                /\ PositionsOf(tests[i]) # {}
                /\ \A k \in PositionsOf(tests[i]) : FracEq(ranked[k][1], Frac(1, 1))
                /\ features[i][1] >= 1
                /\ features[i][2] = 0

\* C5 witness: a changed test for which the model returned another score.
C5_Witness ==
    /\ rpc = "done"
    /\ \E i \in 1..Len(tests) :
          /\ tests[i] \in changed
          /\ ~FracEq(predictions[i], Frac(1, 1))
          /\ \E k \in PositionsOf(tests[i]) : FracEq(ranked[k][1], Frac(1, 1))

\* C6: in the list rank returns, no test outside the change set appears
\* before a test that is in the change set, whatever the model returned.
C6_ChangedTestsFirst ==
    rpc = "done" =>
        \A i, j \in 1..Len(ranked) :
            (i < j /\ ranked[j][2] \in changed) => ranked[i][2] \in changed

\* C7: the list rank returns is in descending order of final score, and two
\* tests with equal final scores are in descending lexicographic order of
\* their paths.
C7_DescendingWithTieBreak ==
    rpc = "done" =>
        \A i, j \in 1..Len(ranked) :
            i < j =>
                \/ FracLess(ranked[j][1], ranked[i][1])
                \/ /\ FracEq(ranked[j][1], ranked[i][1])
                   /\ StrLess(ranked[j][2], ranked[i][2])

\* C7 witness: two tests given in ascending path order ("a" before "ab")
\* received equal final scores and were ranked among three tests.
C7_Witness ==
    /\ rpc = "done"
    /\ Len(tests) >= 3
    /\ \E i, j \in 1..Len(tests) :
          /\ i < j
          /\ StrLess(tests[i], tests[j])
          /\ \E k, l \in 1..Len(ranked) :
                /\ k < l
                /\ ranked[k][2] = tests[j] /\ ranked[l][2] = tests[i]
                /\ FracEq(ranked[k][1], ranked[l][1])

\* C8: the ranked list holds exactly one (score, path) pair for every input
\* test and nothing else.
C8_EveryTestOnce ==
    rpc = "done" =>
        /\ Len(ranked) = Len(tests)
        /\ \A t \in TestSet : Cardinality(PositionsOf(t)) = 1
        /\ \A k \in 1..Len(ranked) : ranked[k][2] \in TestSet

\* C8 witness: a ranked list of three tests, two of them with equal scores.
C8_Witness ==
    /\ rpc = "done"
    /\ Len(tests) >= 3
    /\ Len(ranked) = Len(tests)
    /\ \E k, l \in 1..Len(ranked) : k # l /\ FracEq(ranked[k][1], ranked[l][1])

\* ---------------------------------------------------------------- tp, run
Paths == {Names[i] : i \in 1..NumFiles}

Contents == 0..MaxContent

\* The project folder itself ("") and its top-level folders "a" and "b".
Folders == {<<>>, <<1>>, <<2>>}

\* lines 41-49: the file lies in the folder that is walked
IsUnder(f, folder) ==
    Len(folder) <= Len(f) /\ SubSeq(f, 1, Len(folder)) = folder

\* A set of paths as a list in ascending order.
RECURSIVE Ascending(_)
Ascending(S) ==
    IF S = {} THEN <<>>
    ELSE LET least == CHOOSE x \in S : \A y \in S \ {x} : StrLess(x, y)
         IN  <<least>> \o Ascending(S \ {least})

\* lines 40-49, 103, 104: the files of a folder, each once
get_files(folder, d) == Ascending({f \in DOMAIN d : IsUnder(f, folder)})

\* lines 17-19: the digest of a content, two hexadecimal digits long here
sha1_file(c) == <<(7 * c + 3) % 16, (11 * c + 5) % 16>>

\* A dict built from (key, value) pairs; a later pair replaces an earlier
\* one with the same key.
RECURSIVE DictOf(_)
DictOf(pairs) ==
    IF pairs = <<>> THEN NoHashes
    ELSE LET last == pairs[Len(pairs)]
         IN  (last[1] :> last[2]) @@ DictOf(SubSeq(pairs, 1, Len(pairs) - 1))

\* json.dump of a dict of strings (lines 36-38): its (key, value) pairs
JsonDump(h) == LET keys == Ascending(DOMAIN h)
               IN  [i \in 1..Len(keys) |-> <<keys[i], h[keys[i]]>>]

\* json.load of such a document (line 24)
JsonLoad(doc) == DictOf(doc)

\* lines 21-26: a missing or unreadable file yields {}
load_hashes(file) ==
    IF file.kind = "document" THEN JsonLoad(file.doc) ELSE NoHashes

\* line 107
HashFiles(test_files, source_files, d) ==
    LET all == test_files \o source_files
    IN  DictOf([i \in 1..Len(all) |-> <<all[i], sha1_file(d[all[i]])>>])

\* Mutant of ChangedFiles: only files with a different recorded hash.
ChangedFilesRecordedOnly(old, new) ==
    {f \in DOMAIN new : f \in DOMAIN old /\ new[f] # old[f]}

\* line 109
ChangedFiles(old, new) ==
    {f \in DOMAIN new : f \notin DOMAIN old \/ new[f] # old[f]}

\* Mutant of SavedHashes: the mapping loaded at the start is written back.
SavedHashesStale(old, new) == old

\* line 122 (with lines 116, 143, 145): the mapping that is written
SavedHashes(old, new) == new

GraphNodes(g) == DOMAIN g \cup UNION {Succ(n, g) : n \in DOMAIN g}

\* lines 51-62, 112: what the extractor may report for the files at hand
ExtractedGraphs(files) ==
    {g \in {NoDependencies, Cycle, Diamond} : GraphNodes(g) \subseteq files}

Tracked(f) == IsUnder(f, test_folder) \/ IsUnder(f, source_folder)

InitRun ==
    /\ disk \in UNION {[K -> Contents] : K \in SUBSET Paths}
    /\ hashes_json = AbsentFile
    /\ test_folder \in Folders
    /\ source_folder \in Folders
    /\ old_hashes = NoHashes
    /\ new_hashes = NoHashes
    /\ persisted = NoMapping
    /\ last_run = "none"
    /\ dirty = FALSE
    /\ dependencies = NoDependencies
    /\ changed = {}
    /\ RankIdle
    /\ BfsIdle

\* lines 97-116 up to the feature rows of rank (line 92); what rank does
\* with them is specified by SpecRank, and no later step reads its result
Tp ==
    /\ rpc = "idle"
    /\ LET test_files == get_files(test_folder, disk)
           source_files == get_files(source_folder, disk)
           old == load_hashes(hashes_json)
           new == HashFiles(test_files, source_files, disk)
       IN  /\ old_hashes' = old
           /\ new_hashes' = new
           /\ changed' = ChangedFiles(old, new)
           /\ dependencies' \in ExtractedGraphs(DOMAIN new)
           /\ tests' = test_files
           /\ features' = FeatureRows(tests', dependencies', changed')
    /\ rpc' = "computed"
    /\ UNCHANGED <<test, bfsLocals, predictions, ranked, disk, hashes_json,
                   test_folder, source_folder, persisted, last_run, dirty>>

\* tp raises (a file cannot be read, the extractor or the model fails):
\* nothing is written.
TpFails ==
    /\ rpc = "idle"
    /\ last_run' = "failed"
    /\ UNCHANGED <<test, dependencies, changed, bfsLocals, rankLocals, disk,
                   hashes_json, test_folder, source_folder, old_hashes,
                   new_hashes, persisted, dirty>>

\* The locals of tp and run are gone when run returns.
ForgetLocals ==
    /\ old_hashes' = NoHashes
    /\ new_hashes' = NoHashes
    /\ changed' = {}
    /\ dependencies' = NoDependencies
    /\ tests' = <<>>
    /\ features' = <<>>
    /\ rpc' = "idle"

\* lines 145-147: save_jsons, then the ranked list is printed to nothing, to
\* the standard output, or to a file, which may be a file of the project.
RunCompletes ==
    /\ rpc = "computed"
    /\ hashes_json' = FileWith(JsonDump(SavedHashes(old_hashes, new_hashes)))
    /\ persisted' = Mapping(new_hashes)
    /\ \/ UNCHANGED <<disk, dirty>>
       \/ \E out \in Paths, text \in Contents :
             /\ disk' = (out :> text) @@ disk
             /\ dirty' = (dirty \/ (Tracked(out) /\ disk' # disk))
    /\ last_run' = "completed"
    /\ ForgetLocals
    /\ UNCHANGED <<test, bfsLocals, predictions, ranked, test_folder, source_folder>>

\* lines 118-122 raise: before hashes.json is opened it keeps its content,
\* afterwards it is left truncated.
SaveFails ==
    /\ rpc = "computed"
    /\ \/ UNCHANGED <<hashes_json, persisted>>
       \/ hashes_json' = CorruptFile /\ persisted' = NoMapping
    /\ last_run' = "failed"
    /\ ForgetLocals
    /\ UNCHANGED <<test, bfsLocals, predictions, ranked, disk, test_folder,
                   source_folder, dirty>>

\* Between runs a file is created or rewritten.
WriteFile ==
    /\ rpc = "idle"
    /\ \E f \in Paths, c \in Contents :
          /\ disk' = (f :> c) @@ disk
          /\ disk' # disk
          /\ dirty' = (dirty \/ Tracked(f))
    /\ UNCHANGED <<test, dependencies, changed, bfsLocals, rankLocals,
                   hashes_json, test_folder, source_folder, old_hashes,
                   new_hashes, persisted, last_run>>

\* Between runs a file is removed.
RemoveFile ==
    /\ rpc = "idle"
    /\ \E f \in DOMAIN disk :
          /\ disk' = [g \in DOMAIN disk \ {f} |-> disk[g]]
          /\ dirty' = (dirty \/ Tracked(f))
    /\ UNCHANGED <<test, dependencies, changed, bfsLocals, rankLocals,
                   hashes_json, test_folder, source_folder, old_hashes,
                   new_hashes, persisted, last_run>>

NextRun == Tp \/ TpFails \/ RunCompletes \/ SaveFails \/ WriteFile \/ RemoveFile

SpecRun == InitRun /\ [][NextRun]_vars

\* The test and source files on disk.
CurrentFiles == {f \in DOMAIN disk : Tracked(f)}

\* C9: in every run the change set is exactly the set of current test and
\* source files that have no entry in the prior hash mapping or whose
\* current hash differs from the prior one; it is a subset of the files
\* hashed, and with no prior mapping it is every current file.
C9_ChangeSetExact ==
    rpc = "computed" =>
        /\ DOMAIN new_hashes = CurrentFiles
        /\ changed \subseteq DOMAIN new_hashes
        /\ \A f \in CurrentFiles :
              f \in changed <=>
                 \/ ~persisted.exists
                 \/ f \notin DOMAIN persisted.map
                 \/ persisted.map[f] # sha1_file(disk[f])
        /\ ~persisted.exists => changed = CurrentFiles

\* C9 witness: a run with a prior mapping sees a file without an entry, a
\* file with its recorded hash and a changed set that is neither empty nor
\* everything.
C9_Witness ==
    /\ rpc = "computed"
    /\ persisted.exists
    /\ \E f, g \in CurrentFiles :
          /\ f \notin DOMAIN persisted.map /\ f \in changed
          /\ g \in DOMAIN persisted.map /\ persisted.map[g] = sha1_file(disk[g])
          /\ g \notin changed

\* C10: a run that follows a completed run, with no test or source file
\* added, removed or modified since, computes an empty change set and
\* changed_reachable_count = 0 for every test.
C10_SecondRunIdempotent ==
    (rpc = "computed" /\ last_run = "completed" /\ ~dirty) =>
        /\ changed = {}
        /\ \A i \in 1..Len(features) : features[i][1] = 0

\* C10 witness: such a second run over a project with tests and a
\* dependency cycle between its files.
C10_Witness ==
    /\ rpc = "computed"
    /\ last_run = "completed"
    /\ ~dirty
    /\ Len(tests) >= 1
    /\ Len(features) = Len(tests)
    /\ dependencies = Cycle
    /\ changed = {}

====
